---- MODULE Spec2Model ----
(***************************************************************************)
(* CustomHopWorkletProcessor (src/index.ts): an AudioWorkletProcessor that *)
(* buffers WEB_AUDIO_BLOCK_SIZE-sample blocks into hopSize-sample buffers, *)
(* hands a full hop to processBuffered and releases the result in blocks.  *)
(*                                                                         *)
(* Float32Array objects are modelled by reference: heap maps a reference   *)
(* to the samples it stores, and _inputBuffers / _outputBuffers hold       *)
(* references, so that two fields naming the same Float32Array share its   *)
(* samples.  Indices are 1-based here (0-based in the source).             *)
(***************************************************************************)
EXTENDS Integers, Sequences, FiniteSets, TLC

\* ---- bounds of the model ------------------------------------------------
\* The block size is 128 in the source (line 1); every operation is
\* parametric in it, and the model runs it scaled down.
WEB_AUDIO_BLOCK_SIZE == 4
MaxHopBlocks == 3      \* hopSize ranges over 1..MaxHopBlocks blocks
MaxCalls == 7          \* process() calls made by the host
NumInputKinds == 2     \* distinct input block sets the host may supply

HopSizes == { n * WEB_AUDIO_BLOCK_SIZE : n \in 1..MaxHopBlocks }
Shapes == { <<0, 0>>, <<1, 1>>, <<1, 2>>, <<2, 1>> }
ProcKinds == { "negate", "ramp", "fail" }

VARIABLES
  _hopSize, _inputBuffers, _outputBuffers, _readPointer, _writePointer,
  heap,          \* storage of the live Float32Array objects
  overridden,    \* does the subclass override processBuffered
  hostState,     \* "running", "stopped" (process returned false), "error" (it threw)
  ret,           \* outcome of the last process() call
  outputs,       \* the host's output block after the last process() call
  wrote,         \* did the last process() call run _outputShiftTo
  invoked,       \* did the last process() call invoke processBuffered
  pbResult,      \* what that invocation did: "true", "false", "throw" ("none": no invocation)
  calls,         \* process() calls made so far
  invocations,   \* processBuffered invocations made so far
  reconfigured,  \* was setInputAndChannelCount called after construction
  reconfigAt,    \* process() calls made before the last setInputAndChannelCount
  fed,           \* input kinds supplied since the write pointer was last 0
  pbInputs,      \* samples of the inputs argument at the last processBuffered entry
  produced,      \* samples of the outputs argument at the last processBuffered return
  delivered,     \* output blocks written since the last pointer reset, concatenated
  ptrLog,        \* <<write pointer, read pointer>> after each process() call
  invLog         \* per process() call: was processBuffered invoked

vars == << _hopSize, _inputBuffers, _outputBuffers, _readPointer, _writePointer,
           heap, overridden, hostState, ret, outputs, wrote, invoked, pbResult,
           calls, invocations, reconfigured, reconfigAt, fed, pbInputs, produced,
           delivered, ptrLog, invLog >>

\* ---- helpers ------------------------------------------------------------
Min(a, b) == IF a < b THEN a ELSE b

Zeros(n) == [k \in 1..n |-> 0]

\* new Float32Array(n)
NewFloat32Array(n) == Zeros(n)

\* TypedArray.prototype.set(src, offset): src is written at dst[offset..]
SetAt(dst, src, offset) ==
  [k \in 1..Len(dst) |->
     IF k > offset /\ k <= offset + Len(src) THEN src[k - offset] ELSE dst[k]]

\* TypedArray.prototype.subarray(begin, end): both ends clamped to the length
Subarray(a, begin, end) ==
  SubSeq(a, Min(begin, Len(a)) + 1, Min(end, Len(a)))

Shape(bufs) == << Len(bufs), IF Len(bufs) = 0 THEN 0 ELSE Len(bufs[1]) >>

Cells(bufs) == { <<i, j>> : i \in 1..Len(bufs), j \in 1..Shape(bufs)[2] }

\* samples of every buffer of a buffer set, read through the heap
Contents(h, bufs) ==
  [i \in 1..Len(bufs) |-> [j \in 1..Len(bufs[i]) |-> h[bufs[i][j]]]]

\* the block the host supplies for input i, channel j when it feeds kind v:
\* every sample of every block is distinct
InputBlock(v, i, j) ==
  [k \in 1..WEB_AUDIO_BLOCK_SIZE |-> ((v * 10 + i) * 10 + j) * 1000 + k]

HostInputs(v, shape) ==
  [i \in 1..shape[1] |-> [j \in 1..shape[2] |-> InputBlock(v, i, j)]]

HostOutputs(shape) ==
  [i \in 1..shape[1] |-> [j \in 1..shape[2] |-> Zeros(WEB_AUDIO_BLOCK_SIZE)]]

EmptyCells(shape) == [i \in 1..shape[1] |-> [j \in 1..shape[2] |-> << >>]]

\* ---- src/index.ts -------------------------------------------------------

\* mutant of setInputAndChannelCount: the buffers are one block long
setInputAndChannelCount_BlockLength(inputCount, channelCount, hopSize) ==
  LET inBufs == [i \in 1..inputCount |-> [j \in 1..channelCount |-> <<i, j>>]]
  IN [ inputBuffers  |-> inBufs,
       outputBuffers |-> [i \in 1..inputCount |-> inBufs[i]],
       heap |-> [ref \in { <<i, j>> : i \in 1..inputCount, j \in 1..channelCount }
                   |-> NewFloat32Array(WEB_AUDIO_BLOCK_SIZE)] ]

\* setInputAndChannelCount, lines 45-53.  Line 46-50 allocates one
\* Float32Array(hopSize) per (input, channel): reference <<i, j>>.  Line 52,
\* { ...this._inputBuffers }, copies the outer array's entries into an object:
\* entry i of the result is the same inner array, holding the same references.
setInputAndChannelCount(inputCount, channelCount, hopSize) ==
  LET inBufs == [i \in 1..inputCount |-> [j \in 1..channelCount |-> <<i, j>>]]
  IN [ inputBuffers  |-> inBufs,
       outputBuffers |-> [i \in 1..inputCount |-> inBufs[i]],
       heap |-> [ref \in { <<i, j>> : i \in 1..inputCount, j \in 1..channelCount }
                   |-> NewFloat32Array(hopSize)] ]

\* _inputBuffer, lines 109-117: set(input[i][j]) is called without an offset
_inputBuffer(h, bufs, input, w) ==
  [ heap |-> [ref \in DOMAIN h |->
                IF \E c \in Cells(bufs) : bufs[c[1]][c[2]] = ref
                THEN LET c == CHOOSE c \in Cells(bufs) : bufs[c[1]][c[2]] = ref
                     IN SetAt(h[ref], input[c[1]][c[2]], 0)
                ELSE h[ref]],
    w |-> w + WEB_AUDIO_BLOCK_SIZE ]

\* mutant of _outputShiftTo: the slice is taken from the start of the buffer
_outputShiftTo_FromStart(h, obufs, outs, r) ==
  [ outputs |-> [i \in 1..Len(outs) |-> [j \in 1..Len(outs[i]) |->
                   SetAt(outs[i][j],
                         Subarray(h[obufs[i][j]], 0, WEB_AUDIO_BLOCK_SIZE), 0)]],
    r |-> r + WEB_AUDIO_BLOCK_SIZE ]

\* _outputShiftTo, lines 94-107: the loops run over the host's outputs
_outputShiftTo(h, obufs, outs, r) ==
  [ outputs |-> [i \in 1..Len(outs) |-> [j \in 1..Len(outs[i]) |->
                   SetAt(outs[i][j],
                         Subarray(h[obufs[i][j]], r, r + WEB_AUDIO_BLOCK_SIZE), 0)]],
    r |-> r + WEB_AUDIO_BLOCK_SIZE ]

\* mutants of _inputHasEnough: ready one block early; ready one block late
_inputHasEnough_Early(w, hopSize) == w + WEB_AUDIO_BLOCK_SIZE >= hopSize

_inputHasEnough_Late(w, hopSize) == w > hopSize

\* _inputHasEnough, lines 119-121
_inputHasEnough(w, hopSize) == w >= hopSize

\* mutant of _outputHasMore: the drain ends one block early
_outputHasMore_ShortDrain(r, hopSize) == r + WEB_AUDIO_BLOCK_SIZE < hopSize

\* _outputHasMore, lines 123-125
_outputHasMore(r, hopSize) == r < hopSize

\* mutant of _resetPointers: the write pointer is not reset
_resetPointers_KeepWrite(r, w) == [ r |-> 0, w |-> w ]

\* _resetPointers, lines 127-130
_resetPointers(r, w) == [ r |-> 0, w |-> 0 ]

\* An override of processBuffered (lines 12-14, 55-64): it reads inputs and
\* fills outputs in place, sample by sample, and returns success or failure.
\*   "negate": outputs[i][j][k] = -inputs[i][j][k]
\*   "ramp":   outputs[i][j][k] = k + 1
\*   "fail":   returns false without touching the buffers
Kernel(kind, x, k) == IF kind = "negate" THEN 0 - x ELSE k

processBuffered(kind, h, inBufs, outBufs) ==
  IF kind = "fail" THEN [ ok |-> FALSE, heap |-> h ]
  ELSE [ ok |-> TRUE,
         heap |-> [ref \in DOMAIN h |->
                     IF \E c \in Cells(outBufs) : outBufs[c[1]][c[2]] = ref
                     THEN LET c == CHOOSE c \in Cells(outBufs) : outBufs[c[1]][c[2]] = ref
                              src == h[inBufs[c[1]][c[2]]]
                          IN [k \in 1..Len(h[ref]) |-> Kernel(kind, src[k], k)]
                     ELSE h[ref]] ]

\* mutant of processHop: the pointers are reset before the result of
\* processBuffered is looked at
processHop_ResetFirst(kind, a, outs) ==
  IF ~overridden
  THEN [a EXCEPT !.ret = "throw", !.invoked = TRUE, !.pb = "throw",
                 !.pbInputs = Contents(a.heap, _inputBuffers)]
  ELSE LET p == processBuffered(kind, a.heap, _inputBuffers, _outputBuffers)
           q == _resetPointers(a.r, a.w)
       IN IF ~p.ok
          THEN [a EXCEPT !.ret = "false", !.invoked = TRUE, !.pb = "false",
                         !.w = q.w, !.r = q.r,
                         !.pbInputs = Contents(a.heap, _inputBuffers)]
          ELSE LET s == _outputShiftTo(p.heap, _outputBuffers, outs, q.r)
               IN [a EXCEPT !.ret = "true", !.heap = p.heap, !.w = q.w,
                            !.r = s.r, !.outputs = s.outputs, !.wrote = TRUE,
                            !.invoked = TRUE, !.reset = TRUE, !.pb = "true",
                            !.pbInputs = Contents(a.heap, _inputBuffers),
                            !.produced = Contents(p.heap, _outputBuffers)]

\* process, lines 85-91: the hop is ready and nothing is left to drain.
\* `a` is the state the accumulate step left, `outs` the host's output block.
processHop(kind, a, outs) ==
  IF ~overridden
  THEN [a EXCEPT !.ret = "throw", !.invoked = TRUE, !.pb = "throw",
                 !.pbInputs = Contents(a.heap, _inputBuffers)]
  ELSE LET p == processBuffered(kind, a.heap, _inputBuffers, _outputBuffers)
       IN IF ~p.ok
          THEN [a EXCEPT !.ret = "false", !.invoked = TRUE, !.pb = "false",
                         !.pbInputs = Contents(a.heap, _inputBuffers)]
          ELSE LET q == _resetPointers(a.r, a.w)
                   s == _outputShiftTo(p.heap, _outputBuffers, outs, q.r)
               IN [a EXCEPT !.ret = "true", !.heap = p.heap, !.w = q.w,
                            !.r = s.r, !.outputs = s.outputs, !.wrote = TRUE,
                            !.invoked = TRUE, !.reset = TRUE, !.pb = "true",
                            !.pbInputs = Contents(a.heap, _inputBuffers),
                            !.produced = Contents(p.heap, _outputBuffers)]

\* mutant of process: a call that is not yet ready returns false
process_NotReadyStops(v, kind) ==
  LET shape == Shape(_inputBuffers)
      acc == _inputBuffer(heap, _inputBuffers, HostInputs(v, shape), _writePointer)
      outs == HostOutputs(shape)
      a == [ ret |-> "true", heap |-> acc.heap, w |-> acc.w, r |-> _readPointer,
             outputs |-> outs, wrote |-> FALSE, invoked |-> FALSE, reset |-> FALSE,
             pb |-> "none", pbInputs |-> pbInputs, produced |-> produced ]
  IN IF _outputHasMore(_readPointer, _hopSize)
     THEN LET s == _outputShiftTo(a.heap, _outputBuffers, outs, _readPointer)
          IN [a EXCEPT !.r = s.r, !.outputs = s.outputs, !.wrote = TRUE]
     ELSE IF ~_inputHasEnough(a.w, _hopSize)
     THEN [a EXCEPT !.ret = "false"]
     ELSE processHop(kind, a, outs)

\* process, lines 73-92: the whole handler for input kind v, with the
\* subclass's processBuffered behaving as `kind`
process(v, kind) ==
  LET shape == Shape(_inputBuffers)
      acc == _inputBuffer(heap, _inputBuffers, HostInputs(v, shape), _writePointer)
      outs == HostOutputs(shape)
      a == [ ret |-> "true", heap |-> acc.heap, w |-> acc.w, r |-> _readPointer,
             outputs |-> outs, wrote |-> FALSE, invoked |-> FALSE, reset |-> FALSE,
             pb |-> "none", pbInputs |-> pbInputs, produced |-> produced ]
  IN IF _outputHasMore(_readPointer, _hopSize)
     THEN LET s == _outputShiftTo(a.heap, _outputBuffers, outs, _readPointer)
          IN [a EXCEPT !.r = s.r, !.outputs = s.outputs, !.wrote = TRUE]
     ELSE IF ~_inputHasEnough(a.w, _hopSize)
     THEN a
     ELSE processHop(kind, a, outs)

\* ---- the state machine --------------------------------------------------

\* constructor, lines 28-38
Init ==
  /\ _hopSize \in HopSizes
  /\ \E shape \in Shapes :
       LET b == setInputAndChannelCount(shape[1], shape[2], _hopSize)
       IN /\ _inputBuffers = b.inputBuffers
          /\ _outputBuffers = b.outputBuffers
          /\ heap = b.heap
          /\ outputs = HostOutputs(shape)
          /\ pbInputs = EmptyCells(shape)
          /\ produced = EmptyCells(shape)
          /\ delivered = EmptyCells(shape)
  /\ _readPointer = _hopSize
  /\ _writePointer = 0
  /\ overridden \in BOOLEAN
  /\ hostState = "running"
  /\ ret = "none"
  /\ wrote = FALSE
  /\ invoked = FALSE
  /\ pbResult = "none"
  /\ calls = 0
  /\ invocations = 0
  /\ reconfigured = FALSE
  /\ reconfigAt = 0
  /\ fed = << >>
  /\ ptrLog = << >>
  /\ invLog = << >>

\* The host calls process() (lines 73-92) with a block set of the configured
\* shape; it stops calling once process() has returned false or has thrown.
Process ==
  /\ hostState = "running"
  /\ calls < MaxCalls
  /\ \E v \in 1..NumInputKinds, kind \in ProcKinds :
       \E res \in { process(v, kind) } :
          /\ heap' = res.heap
          /\ _writePointer' = res.w
          /\ _readPointer' = res.r
          /\ ret' = res.ret
          /\ hostState' = CASE res.ret = "true" -> "running"
                            [] res.ret = "false" -> "stopped"
                            [] OTHER -> "error"
          /\ outputs' = res.outputs
          /\ wrote' = res.wrote
          /\ invoked' = res.invoked
          /\ pbResult' = res.pb
          /\ invocations' = IF res.invoked THEN invocations + 1 ELSE invocations
          /\ fed' = IF _writePointer = 0 THEN << v >> ELSE Append(fed, v)
          /\ pbInputs' = res.pbInputs
          /\ produced' = res.produced
          /\ delivered' =
               IF ~res.wrote THEN delivered
               ELSE [i \in 1..Len(res.outputs) |-> [j \in 1..Len(res.outputs[i]) |->
                       IF res.reset THEN res.outputs[i][j]
                       ELSE delivered[i][j] \o res.outputs[i][j]]]
          /\ ptrLog' = Append(ptrLog, << res.w, res.r >>)
          /\ invLog' = Append(invLog, res.invoked)
  /\ calls' = calls + 1
  /\ UNCHANGED << _hopSize, _inputBuffers, _outputBuffers, overridden, reconfigured,
                  reconfigAt >>

\* setInputAndChannelCount (lines 45-53) called on the constructed object
SetInputAndChannelCount ==
  /\ \E shape \in Shapes :
       LET b == setInputAndChannelCount(shape[1], shape[2], _hopSize)
       IN /\ _inputBuffers' = b.inputBuffers
          /\ _outputBuffers' = b.outputBuffers
          /\ heap' = b.heap
          /\ pbInputs' = EmptyCells(shape)
          /\ produced' = EmptyCells(shape)
          /\ delivered' = EmptyCells(shape)
  /\ reconfigured' = TRUE
  /\ reconfigAt' = calls
  /\ UNCHANGED << _hopSize, _readPointer, _writePointer, overridden, hostState, ret,
                  outputs, wrote, invoked, pbResult, calls, invocations, fed,
                  ptrLog, invLog >>

Next == Process \/ SetInputAndChannelCount

Spec == Init /\ [][Next]_vars

\* ---- properties ---------------------------------------------------------

\* blocks per hop
N == _hopSize \div WEB_AUDIO_BLOCK_SIZE

\* the blocks of kinds vs, supplied for input i, channel j, one after another
ConcatBlocks(vs, i, j) ==
  [k \in 1..(Len(vs) * WEB_AUDIO_BLOCK_SIZE) |->
     InputBlock(vs[((k - 1) \div WEB_AUDIO_BLOCK_SIZE) + 1], i, j)
               [((k - 1) % WEB_AUDIO_BLOCK_SIZE) + 1]]

\* processBuffered invocations that returned true
Successes == invocations - (IF hostState = "running" THEN 0 ELSE 1)

HasCells == Cells(_inputBuffers) # {}

AllZero(blocks) ==
  \A c \in Cells(blocks) : \A k \in 1..Len(blocks[c[1]][c[2]]) : blocks[c[1]][c[2]][k] = 0

\* C1 (as claimed): without reconfiguration and with a processBuffered that
\* succeeds, the k-th invocation of processBuffered happens on call k*N and
\* receives, for every input and channel, the concatenation of the N blocks
\* supplied on calls (k-1)*N+1 .. k*N, in order.
C1_InputIsConcatenation ==
  (~reconfigured /\ invoked /\ pbResult = "true") =>
     /\ calls = invocations * N
     /\ Len(fed) = N
     /\ \A c \in Cells(_inputBuffers) :
          pbInputs[c[1]][c[2]] = ConcatBlocks(fed, c[1], c[2])

\* C2: without reconfiguration, once processBuffered has succeeded, the
\* output blocks written since that call, concatenated in call order, are
\* the first read-pointer samples of the hop it produced, one more block per
\* call, so that N calls deliver exactly the produced hop.
C2_DrainReconstructsOutput ==
  (~reconfigured /\ Successes > 0) =>
     /\ hostState = "running" =>
          _readPointer = (calls - Successes * N + 1) * WEB_AUDIO_BLOCK_SIZE
     /\ _readPointer <= _hopSize
     /\ \A c \in Cells(_outputBuffers) :
          /\ Len(produced[c[1]][c[2]]) = _hopSize
          /\ delivered[c[1]][c[2]] = SubSeq(produced[c[1]][c[2]], 1, _readPointer)

C2_Witness ==
  /\ ~reconfigured /\ N = 3 /\ Successes = 1 /\ calls = 5 /\ HasCells
  /\ delivered = produced
  /\ Len(fed) = 2 /\ fed[1] # fed[2]
  /\ produced[1][1][1] # 0

\* C3 (as claimed): on a fresh adapter none of the first H/B calls writes
\* anything into the output block.
C3_FirstNCallsSilent ==
  (~reconfigured /\ calls >= 1 /\ calls <= N) => ~(wrote /\ HasCells)

\* C3 (amended): on a fresh adapter none of the first H/B - 1 calls runs the
\* output copy, and each leaves the host's output block as it was; call H/B
\* writes a block when processBuffered succeeds.
C3_FirstCallsSilent ==
  /\ (calls >= 1 /\ calls < N) => (~wrote /\ AllZero(outputs))
  /\ (calls = N /\ pbResult = "true") => wrote

C3_Witness ==
  /\ N = 3 /\ calls = 2 /\ ~wrote /\ HasCells /\ heap[<<1, 1>>][1] # 0

C5_DrainPriority ==
  [][ (calls' = calls + 1 /\ _readPointer < _hopSize) =>
        /\ ~invoked' /\ invocations' = invocations /\ wrote'
        /\ _readPointer' = _readPointer + WEB_AUDIO_BLOCK_SIZE
        /\ _writePointer' = _writePointer + WEB_AUDIO_BLOCK_SIZE ]_vars

C5_Witness ==
  /\ N = 3 /\ calls = 4 /\ wrote /\ ~invoked /\ _readPointer < _hopSize
  /\ _writePointer > 0

C7_UnimplementedThrows ==
  ~overridden =>
     /\ calls < N => (ret # "throw" /\ ret # "false" /\ invocations = 0
                      /\ hostState = "running")
     /\ calls >= N =>
          /\ calls = N /\ ret = "throw" /\ hostState = "error"
          /\ invoked /\ pbResult = "throw" /\ invocations = 1
          /\ ~wrote /\ AllZero(outputs)
          /\ _writePointer = _hopSize /\ _readPointer = _hopSize

C7_Witness ==
  ~overridden /\ ret = "throw" /\ N = 3 /\ calls = 3 /\ HasCells

\* the pointer pair after call c (c = 0: after construction)
PtrAt(c) == IF c = 0 THEN << 0, _hopSize >> ELSE ptrLog[c]

\* processBuffered has never failed
AllSucceeded == overridden /\ hostState = "running"

\* number of invocations on calls c-N+1 .. c
InvokedIn(c) == Cardinality({ d \in (c - N + 1)..c : invLog[d] })

\* C8 (as claimed): with a processBuffered that always succeeds, the pointer
\* pair after every call from the first processing step (call N) on equals
\* the pair N calls earlier, and every window of N calls has one invocation.
C8_PeriodicFromFirstStep ==
  AllSucceeded =>
     /\ \A c \in N..calls : PtrAt(c) = PtrAt(c - N)
     /\ \A c \in N..calls : InvokedIn(c) = 1

\* C8 (amended): the pointer pair after every call from call 2N-1 on equals
\* the pair N calls earlier, and every window of N calls has one invocation.
C8_PeriodicSteadyState ==
  AllSucceeded =>
     /\ \A c \in (2 * N - 1)..calls : PtrAt(c) = PtrAt(c - N)
     /\ \A c \in N..calls : InvokedIn(c) = 1

C8_Witness ==
  AllSucceeded /\ N = 3 /\ calls = 7 /\ invocations = 2

C10_IndependentStorage ==
  [][ calls' = calls + 1 =>
        /\ ~invoked' =>
              Contents(heap', _outputBuffers') = Contents(heap, _outputBuffers)
        /\ invoked' =>
              Contents(heap', _inputBuffers') =
                Contents(_inputBuffer(heap, _inputBuffers,
                                      HostInputs(fed'[Len(fed')], Shape(_inputBuffers)),
                                      _writePointer).heap,
                         _inputBuffers) ]_vars

\* the block set the host supplied on the call just made
LastInputs == HostInputs(fed[Len(fed)], Shape(_inputBuffers))

\* C11 (as claimed): a process() call entered with write pointer w < hopSize
\* leaves the accumulation buffers (as processBuffered sees them, when the
\* call invokes it) equal to what they were with the incoming block written
\* at positions w .. w+B-1, and has advanced the write pointer by B (to w + B,
\* or to 0 when the call went on to reset it).
C11_AccumulateAtWritePointer ==
  [][ (calls' = calls + 1 /\ _writePointer < _hopSize) =>
        /\ (IF invoked' THEN pbInputs' ELSE Contents(heap', _inputBuffers')) =
             [i \in 1..Len(_inputBuffers) |-> [j \in 1..Len(_inputBuffers[i]) |->
                SetAt(heap[_inputBuffers[i][j]], LastInputs'[i][j], _writePointer)]]
        /\ _writePointer' =
             IF pbResult' = "true" THEN 0 ELSE _writePointer + WEB_AUDIO_BLOCK_SIZE
    ]_vars

\* process() calls in which the pointers were reset: those whose invocation
\* of processBuffered returned true (a failing invocation ends the run)
ResetCalls ==
  { c \in 1..calls : invLog[c] /\ (c < calls \/ pbResult = "true") }

\* the write pointer after call c according to the law of C12, with the
\* resets at the calls of set R
WriteLaw(c, R) ==
  LET last == IF \E d \in R : d <= c
              THEN CHOOSE d \in R : d <= c /\ \A e \in R : e <= c => e <= d
              ELSE 0
  IN (c - last) * WEB_AUDIO_BLOCK_SIZE

\* C12 (as claimed): with processBuffered overridden, the write pointer is B
\* times the number of process() calls since the last reset, and the resets
\* are at exactly the calls that invoked processBuffered.
C12_WriteLawResetOnInvocation ==
  overridden =>
     /\ _writePointer = PtrAt(calls)[1]
     /\ \A c \in 0..calls :
           PtrAt(c)[1] = WriteLaw(c, { d \in 1..calls : invLog[d] })

\* C12 (amended): the write pointer is 0 after construction and B times the
\* number of process() calls since the last reset; the resets are at exactly
\* the calls in which processBuffered was invoked and returned true, and
\* every other call grows the write pointer by B.
C12_WriteLaw ==
  /\ _writePointer = PtrAt(calls)[1]
  /\ \A c \in 0..calls : PtrAt(c)[1] = WriteLaw(c, ResetCalls)
  /\ \A c \in 1..calls :
        IF c \in ResetCalls THEN PtrAt(c)[1] = 0
        ELSE PtrAt(c)[1] = PtrAt(c - 1)[1] + WEB_AUDIO_BLOCK_SIZE

C12_Witness ==
  /\ N = 3 /\ calls = 6 /\ hostState = "stopped" /\ ResetCalls = {3}
  /\ _writePointer = _hopSize

\* C13: the read pointer is hopSize until processBuffered first succeeds; a
\* call in which it succeeds ends with write pointer 0 and read pointer B; a
\* call that runs the output copy ends with the read pointer advanced by B
\* (from 0 after a reset) and with the output block holding the drain-buffer
\* slice that starts at the read pointer it copied from; any other call
\* leaves the read pointer as it was.
C13_ReadLaw ==
  (Successes = 0 => _readPointer = _hopSize)
  /\ [][ calls' = calls + 1 =>
           /\ pbResult' = "true" =>
                (wrote' /\ _writePointer' = 0 /\ _readPointer' = WEB_AUDIO_BLOCK_SIZE)
           /\ (wrote' /\ pbResult' # "true") =>
                _readPointer' = _readPointer + WEB_AUDIO_BLOCK_SIZE
           /\ wrote' =>
                \A c \in Cells(_outputBuffers) :
                   outputs'[c[1]][c[2]] =
                     SubSeq(heap'[_outputBuffers[c[1]][c[2]]],
                            _readPointer' - WEB_AUDIO_BLOCK_SIZE + 1, _readPointer')
           /\ ~wrote' => _readPointer' = _readPointer
           /\ (Successes' = 0) => _readPointer' = _hopSize ]_vars

C13_Witness ==
  /\ N = 3 /\ calls = 5 /\ wrote /\ ~invoked /\ HasCells
  /\ _readPointer = _hopSize /\ outputs[1][1][1] # 0

\* C14: a setInputAndChannelCount call leaves both pointers as they were and
\* both buffer sets zero-filled, of one shape [inputCount][channelCount],
\* every buffer hopSize long.
C14_Reconfigure ==
  [][ calls' = calls =>
        /\ _writePointer' = _writePointer /\ _readPointer' = _readPointer
        /\ \E shape \in Shapes :
             LET z == [i \in 1..shape[1] |-> [j \in 1..shape[2] |-> Zeros(_hopSize)]]
             IN /\ Contents(heap', _inputBuffers') = z
                /\ Contents(heap', _outputBuffers') = z ]_vars

C14_Witness ==
  /\ reconfigured /\ N = 3 /\ calls = 4 /\ HasCells
  /\ AllZero(Contents(heap, _inputBuffers))
  /\ _writePointer = WEB_AUDIO_BLOCK_SIZE /\ _readPointer = 2 * WEB_AUDIO_BLOCK_SIZE

\* process() calls made since the last setInputAndChannelCount
SinceReconfig == calls - reconfigAt

\* C15 (as claimed, the silent calls counted as in C3: the H/B-th call is the
\* one that may complete a hop): after a setInputAndChannelCount, none of the
\* next H/B - 1 process() calls runs the output copy or invokes
\* processBuffered, and the first invocation after it receives no sample
\* other than zeros and samples of blocks supplied after it.
C15_SilentAfterReconfigure ==
  (reconfigured /\ overridden) =>
     /\ (SinceReconfig >= 1 /\ SinceReconfig < N) => (~wrote /\ ~invoked)
     /\ (invoked /\ SinceReconfig >= 1
         /\ \A d \in (reconfigAt + 1)..(calls - 1) : ~invLog[d]) =>
           \A c \in Cells(_inputBuffers) : \A k \in 1..Len(pbInputs[c[1]][c[2]]) :
              \/ pbInputs[c[1]][c[2]][k] = 0
              \/ \E v \in 1..NumInputKinds, q \in 1..WEB_AUDIO_BLOCK_SIZE :
                    pbInputs[c[1]][c[2]][k] = InputBlock(v, c[1], c[2])[q]

\* C16: a process() call returns false only when it invoked processBuffered
\* and that returned false; a call that runs the output copy, a call that is
\* not yet ready and a call whose processBuffered returns true all return
\* true.
C16_ReturnValue ==
  calls >= 1 =>
     /\ ret = "false" => (invoked /\ pbResult = "false")
     /\ pbResult = "false" => ret = "false"
     /\ (wrote \/ ~invoked \/ pbResult = "true") => ret = "true"

C16_Witness ==
  /\ N = 3 /\ calls = 2 /\ ret = "true" /\ ~wrote /\ ~invoked /\ overridden

\* C17: with a processBuffered that always succeeds, no call before call N
\* runs the output copy and every call from call N on does, each writing the
\* next block of the hop being drained.
C17_NoSilenceOnceDraining ==
  AllSucceeded =>
     /\ \A c \in 1..calls : (c >= N) <=> (PtrAt(c)[2] # PtrAt(c - 1)[2] \/ invLog[c])
     /\ (calls >= 1 /\ calls < N) => ~wrote
     /\ calls >= N =>
          /\ wrote
          /\ ~reconfigured =>
               \A c \in Cells(outputs) :
                  outputs[c[1]][c[2]] =
                    SubSeq(produced[c[1]][c[2]],
                           _readPointer - WEB_AUDIO_BLOCK_SIZE + 1, _readPointer)

C17_Witness ==
  /\ AllSucceeded /\ N = 3 /\ calls = 7 /\ wrote /\ ~reconfigured /\ HasCells
  /\ outputs[1][1][1] # 0

\* C18: with a processBuffered that always succeeds, between process() calls
\* the read pointer is hopSize before the first processing step and write
\* pointer + B after it; so the next call never finds, after its accumulate
\* step, a pending drain together with a full accumulation buffer.
C18_PointerRelation ==
  AllSucceeded =>
     /\ invocations = 0 => _readPointer = _hopSize
     /\ invocations > 0 => _readPointer = _writePointer + WEB_AUDIO_BLOCK_SIZE
     /\ ~(_outputHasMore(_readPointer, _hopSize)
          /\ _inputHasEnough(_writePointer + WEB_AUDIO_BLOCK_SIZE, _hopSize))

C18_Witness ==
  /\ AllSucceeded /\ N = 3 /\ calls = 5 /\ invocations = 1
  /\ _readPointer = _hopSize /\ _writePointer = 2 * WEB_AUDIO_BLOCK_SIZE

====
